---- MODULE Spec2Model ----
(***************************************************************************)
(* podperf: the /sort request handler (src/app/main.go, both variants of   *)
(* the file: the tracing variant, lines 1-368, and the plain variant,      *)
(* lines 370-571) and its fork-join merge sort.                            *)
(*                                                                         *)
(* The sizes of the source (threshold 100000, datasets of 20000 and        *)
(* 20000000 elements, values below 20000 / 20000000) are scaled down; the  *)
(* scaling keeps their order: sizeTracing <= thresholdConst < sizePlain.   *)
(***************************************************************************)
EXTENDS Integers, Sequences, FiniteSets, TLC

VARIABLES
    server,         \* main(): its position and the log lines it wrote
    variant,        \* which main.go is running: "tracing" or "plain"
    tracer,         \* TRUE iff the package variable tracer is not nil
    req,            \* per request: the handler goroutine's locals and outputs
    sortRequests,   \* counter podperf_sort_requests_total
    errorCounter,   \* counter podperf_errors_total
    sortDuration,   \* histogram podperf_sort_duration_seconds: count and sum
    arraySize,      \* gauge podperf_array_size
    tasks,          \* the invocations of parallelMergeSort of one direct call
    input,          \* the slice handed to that call
    threshold       \* the local threshold of parallelMergeSort

vars == <<server, variant, tracer, req, sortRequests, errorCounter, sortDuration,
          arraySize, tasks, input, threshold>>

serverVars == <<server, variant, tracer, req, sortRequests, errorCounter,
                sortDuration, arraySize>>

-----------------------------------------------------------------------------
(* Bounds of the model.                                                    *)

MaxLen == 4         \* longest slice handed to a direct call of the sort
MaxThreshold == 2   \* thresholds tried by a direct call: 1..MaxThreshold
NReq == 2           \* requests the server receives
Epoch == 9          \* time.Now().UnixNano() is in Epoch..(Epoch + MaxTick)
MaxTick == 1
MaxDur == 1         \* time.Since(startTime) is in 0..MaxDur

-----------------------------------------------------------------------------
(* The sort: merge, mergeSort, parallelMergeSort.                          *)

\* items[:middle] and items[middle:] of a Go slice (0-based, half-open).
\* items[:middle-1]: the left half loses its last element.
SliceToOneShort(items, middle) == SubSeq(items, 1, middle - 1)

\* A second half that starts one element early.
SliceFromOverlapping(items, middle) ==
    SubSeq(items, IF middle > 0 THEN middle ELSE 1, Len(items))

SliceTo(items, middle) == SubSeq(items, 1, middle)
SliceFrom(items, middle) == SubSeq(items, middle + 1, Len(items))

\* A comparison that takes the right element when the two are equal.
TakeLeftStrict(l, r) == l < r

\* left[i] <= right[j]
TakeLeft(l, r) == l <= r

\* The loop of merge: i and j are the 0-based indices of the source.
RECURSIVE mergeLoop(_, _, _, _, _)
mergeLoop(left, right, i, j, result) ==
    IF i < Len(left) /\ j < Len(right)
    THEN IF TakeLeft(left[i + 1], right[j + 1])
         THEN mergeLoop(left, right, i + 1, j, Append(result, left[i + 1]))
         ELSE mergeLoop(left, right, i, j + 1, Append(result, right[j + 1]))
    ELSE result \o SliceFrom(left, i) \o SliceFrom(right, j)

\* merge without its last append: the rest of right is lost.
mergeDropsRightTail(left, right) ==
    LET RECURSIVE loop(_, _, _)
        loop(i, j, result) ==
            IF i < Len(left) /\ j < Len(right)
            THEN IF left[i + 1] <= right[j + 1]
                 THEN loop(i + 1, j, Append(result, left[i + 1]))
                 ELSE loop(i, j + 1, Append(result, right[j + 1]))
            ELSE result \o SliceFrom(left, i)
    IN  loop(0, 0, <<>>)

merge(left, right) == mergeLoop(left, right, 0, 0, <<>>)

RECURSIVE mergeSort(_)
mergeSort(items) ==
    LET n == Len(items)
        middle == n \div 2
    IN  IF n <= 1
        THEN items
        ELSE merge(mergeSort(SliceTo(items, middle)),
                   mergeSort(SliceFrom(items, middle)))

\* The value parallelMergeSort returns when both children have been joined.
RECURSIVE parallelMergeSort(_, _)
parallelMergeSort(items, T) ==
    LET n == Len(items)
        middle == n \div 2
    IN  IF n <= 1 THEN items
        ELSE IF n <= T THEN mergeSort(items)
        ELSE merge(parallelMergeSort(SliceTo(items, middle), T),
                   parallelMergeSort(SliceFrom(items, middle), T))

-----------------------------------------------------------------------------
(* One call of parallelMergeSort as goroutines.  A task is one invocation, *)
(* named by its path from the root call: <<>> is the call itself, p \o <<0>>*)
(* the invocation made by the first goroutine of p (left), p \o <<1>> the  *)
(* one made by the second (right).                                         *)
(*   pc = "call"      the invocation has not run yet                       *)
(*        "wait"      blocked in wg.Wait()                                 *)
(*        "returned"  the invocation returned result                       *)
(*        "assigned"  the goroutine stored result in left / right          *)
(*        "done"      the goroutine ran its deferred wg.Done()             *)
(* A nil slice has length 0, so left and right start as <<>>; leftSet and  *)
(* rightSet record whether the goroutine's assignment has happened, and    *)
(* first which of the two happened first.                                  *)

Root == <<>>
LeftOf(p) == Append(p, 0)
RightOf(p) == Append(p, 1)
Parent(p) == SubSeq(p, 1, Len(p) - 1)
\* The first goroutine to finish takes left, whichever half it sorted.
IsLeftByArrival(p) == ~tasks[Parent(p)].leftSet

IsLeft(p) == p[Len(p)] = 0

\* wg.Add(2)
wgAdd == 2

NewTask(items) ==
    [items |-> items, pc |-> "call", wg |-> 0, left |-> <<>>, right |-> <<>>,
     leftSet |-> FALSE, rightSet |-> FALSE, first |-> "none",
     result |-> <<>>]

\* A barrier that is released by the first Done.
WaitReturnsAfterOne(t) == t.wg <= 1

\* wg.Wait() returns when the counter is zero.
WaitReturns(t) == t.wg = 0

\* n <= 1: return items
PmsReturnItems(p) ==
    /\ p \in DOMAIN tasks
    /\ tasks[p].pc = "call"
    /\ Len(tasks[p].items) <= 1
    /\ tasks' = [tasks EXCEPT ![p].pc = "returned",
                              ![p].result = tasks[p].items]
    /\ UNCHANGED <<input, threshold, serverVars>>

\* A sequential sort that sorts items in place.
PmsSequentialInPlace(p) ==
    /\ p \in DOMAIN tasks
    /\ tasks[p].pc = "call"
    /\ Len(tasks[p].items) > 1
    /\ Len(tasks[p].items) <= threshold
    /\ tasks' = [tasks EXCEPT ![p].pc = "returned",
                              ![p].items = mergeSort(tasks[p].items),
                              ![p].result = mergeSort(tasks[p].items)]
    /\ UNCHANGED <<input, threshold, serverVars>>

\* n <= threshold: return mergeSort(items)
PmsSequential(p) ==
    /\ p \in DOMAIN tasks
    /\ tasks[p].pc = "call"
    /\ Len(tasks[p].items) > 1
    /\ Len(tasks[p].items) <= threshold
    /\ tasks' = [tasks EXCEPT ![p].pc = "returned",
                              ![p].result = mergeSort(tasks[p].items)]
    /\ UNCHANGED <<input, threshold, serverVars>>

\* A fork that is also taken by a task of exactly threshold elements.
PmsForkAtThreshold(p) ==
    /\ p \in DOMAIN tasks
    /\ tasks[p].pc = "call"
    /\ Len(tasks[p].items) > 1
    /\ Len(tasks[p].items) >= threshold
    /\ LET items == tasks[p].items
           middle == Len(items) \div 2
       IN  tasks' = [q \in DOMAIN tasks \cup {LeftOf(p), RightOf(p)} |->
                        IF q = p THEN [tasks[p] EXCEPT !.pc = "wait",
                                                       !.wg = wgAdd]
                        ELSE IF q = LeftOf(p) THEN NewTask(SliceTo(items, middle))
                        ELSE IF q = RightOf(p) THEN NewTask(SliceFrom(items, middle))
                        ELSE tasks[q]]
    /\ UNCHANGED <<input, threshold, serverVars>>

\* wg.Add(2); go func() {...}(); go func() {...}(); then wg.Wait()
PmsFork(p) ==
    /\ p \in DOMAIN tasks
    /\ tasks[p].pc = "call"
    /\ Len(tasks[p].items) > 1
    /\ Len(tasks[p].items) > threshold
    /\ LET items == tasks[p].items
           middle == Len(items) \div 2
       IN  tasks' = [q \in DOMAIN tasks \cup {LeftOf(p), RightOf(p)} |->
                        IF q = p THEN [tasks[p] EXCEPT !.pc = "wait",
                                                       !.wg = wgAdd]
                        ELSE IF q = LeftOf(p) THEN NewTask(SliceTo(items, middle))
                        ELSE IF q = RightOf(p) THEN NewTask(SliceFrom(items, middle))
                        ELSE tasks[q]]
    /\ UNCHANGED <<input, threshold, serverVars>>

\* left = parallelMergeSort(items[:middle]) / right = parallelMergeSort(items[middle:])
GoAssign(p) ==
    /\ p \in DOMAIN tasks
    /\ p # Root
    /\ tasks[p].pc = "returned"
    /\ LET first == IF tasks[Parent(p)].first # "none" THEN tasks[Parent(p)].first
                    ELSE IF p[Len(p)] = 0 THEN "left" ELSE "right"
       IN  tasks' = IF IsLeft(p)
                    THEN [tasks EXCEPT ![p].pc = "assigned",
                                       ![Parent(p)].left = tasks[p].result,
                                       ![Parent(p)].leftSet = TRUE,
                                       ![Parent(p)].first = first]
                    ELSE [tasks EXCEPT ![p].pc = "assigned",
                                       ![Parent(p)].right = tasks[p].result,
                                       ![Parent(p)].rightSet = TRUE,
                                       ![Parent(p)].first = first]
    /\ UNCHANGED <<input, threshold, serverVars>>

\* A goroutine that returns without wg.Done().
GoDoneLost(p) ==
    /\ p \in DOMAIN tasks
    /\ p # Root
    /\ tasks[p].pc = "assigned"
    /\ tasks' = [tasks EXCEPT ![p].pc = "done"]
    /\ UNCHANGED <<input, threshold, serverVars>>

\* defer wg.Done()
GoDone(p) ==
    /\ p \in DOMAIN tasks
    /\ p # Root
    /\ tasks[p].pc = "assigned"
    /\ tasks' = [tasks EXCEPT ![p].pc = "done",
                              ![Parent(p)].wg = tasks[Parent(p)].wg - 1]
    /\ UNCHANGED <<input, threshold, serverVars>>

\* wg.Wait() returns; return merge(left, right)
PmsJoin(p) ==
    /\ p \in DOMAIN tasks
    /\ tasks[p].pc = "wait"
    /\ WaitReturns(tasks[p])
    /\ tasks' = [tasks EXCEPT ![p].pc = "returned",
                              ![p].result = merge(tasks[p].left, tasks[p].right)]
    /\ UNCHANGED <<input, threshold, serverVars>>

-----------------------------------------------------------------------------
(* SortSpec: one direct call parallelMergeSort(input), for every slice of  *)
(* at most MaxLen values and every threshold in 1..MaxThreshold.           *)

RECURSIVE SeqsUpTo(_, _)
SeqsUpTo(S, n) ==
    IF n = 0 THEN {<<>>}
    ELSE SeqsUpTo(S, n - 1) \cup [1..n -> S]

NoRequests == <<>>

\* main() before its first statement.
NotStarted == [pc |-> "main", logs |-> <<>>]

intnPlain == 2          \* rand.Intn(20000000)

\* The elements rand.Intn gives a slice.
Elements == 0..(intnPlain - 1)

SortInit ==
    /\ input \in SeqsUpTo(Elements, MaxLen)
    /\ threshold \in 1..MaxThreshold
    /\ tasks = [p \in {Root} |-> NewTask(input)]
    /\ server = NotStarted
    /\ variant = "plain"
    /\ tracer = FALSE
    /\ req = NoRequests
    /\ sortRequests = 0
    /\ errorCounter = 0
    /\ sortDuration = [count |-> 0, sum |-> 0]
    /\ arraySize = 0

SortNext ==
    \/ \E p \in DOMAIN tasks : PmsReturnItems(p)
    \/ \E p \in DOMAIN tasks : PmsSequential(p)
    \/ \E p \in DOMAIN tasks : PmsFork(p)
    \/ \E p \in DOMAIN tasks : GoAssign(p)
    \/ \E p \in DOMAIN tasks : GoDone(p)
    \/ \E p \in DOMAIN tasks : PmsJoin(p)

SortSpec == SortInit /\ [][SortNext]_vars

-----------------------------------------------------------------------------
(* The /sort handler.  Constants of the source, scaled (see the head of    *)
(* the module).                                                            *)

thresholdConst == 2     \* threshold := 100000
sizeTracing == 2        \* const size = 20000 (tracing variant)
sizePlain == 3          \* const size = 20000000 (plain variant)
intnTracing == 2        \* rand.Intn(20000)

StatusOK == 200
StatusBadRequest == 400
StatusMethodNotAllowed == 405

Requests == 1..NReq
Methods == {"GET", "POST"}
Timestamps == Epoch..(Epoch + MaxTick)

\* fmt.Sprintf("%d", n) for n >= 0, as a sequence of characters.
Digits == <<"0", "1", "2", "3", "4", "5", "6", "7", "8", "9">>

RECURSIVE FormatInt(_)
FormatInt(n) ==
    IF n < 10 THEN <<Digits[n + 1]>>
    ELSE Append(FormatInt(n \div 10), Digits[(n % 10) + 1])

\* strconv.ParseInt(s, 10, 64) with the error dropped: 0 when s is no number.
IsDigit(c) == \E d \in 0..9 : Digits[d + 1] = c
DigitValue(c) == CHOOSE d \in 0..9 : Digits[d + 1] = c

RECURSIVE ParseDigits(_)
ParseDigits(s) ==
    IF s = <<>> THEN 0
    ELSE 10 * ParseDigits(SubSeq(s, 1, Len(s) - 1)) + DigitValue(s[Len(s)])

ParseInt(s) ==
    IF s # <<>> /\ \A i \in 1..Len(s) : IsDigit(s[i])
    THEN ParseDigits(s)
    ELSE 0

\* duration.String() of a duration of d nanoseconds, d < 1000.
DurationString(d) ==
    IF d = 0 THEN <<"0", "s">> ELSE FormatInt(d) \o <<"n", "s">>

\* Encode without omitempty: the duration field is always written.
EncodeWithoutOmitEmpty(requestID, status, duration) ==
    [requestID |-> requestID, status |-> status, duration |-> duration]

\* json.NewEncoder(w).Encode(Response{...}): Duration has omitempty.
Encode(requestID, status, duration) ==
    IF duration = <<>>
    THEN [requestID |-> requestID, status |-> status]
    ELSE [requestID |-> requestID, status |-> status, duration |-> duration]

\* generateRandomNumbers(size) with rand.Intn(bound): the slices it can return.
generateRandomNumbers(size, bound) == [1..size -> 0..(bound - 1)]

\* The size of the plain variant in both variants.
sizeAlwaysPlain == sizePlain

size == IF variant = "tracing" THEN sizeTracing ELSE sizePlain
intn == IF variant = "tracing" THEN intnTracing ELSE intnPlain

\* The checks of the handler, in the order of the source: the method, then
\* the parity of the id parsed back from requestID.
ValidateRejectsOdd(method, requestID) ==
    IF method # "GET" THEN "MethodNotAllowed"
    ELSE IF ParseInt(requestID) % 2 = 1 THEN "OddEvenGate"
    ELSE "Accepted"

ValidateParityFirst(method, requestID) ==
    IF ParseInt(requestID) % 2 = 0 THEN "OddEvenGate"
    ELSE IF method # "GET" THEN "MethodNotAllowed"
    ELSE "Accepted"

\* A gate that takes the parity of the request counter instead of the id's.
ValidateByCount(method, requestID) ==
    IF method # "GET" THEN "MethodNotAllowed"
    ELSE IF sortRequests % 2 = 0 THEN "OddEvenGate"
    ELSE "Accepted"

Validate(method, requestID) ==
    IF method # "GET" THEN "MethodNotAllowed"
    ELSE IF ParseInt(requestID) % 2 = 0 THEN "OddEvenGate"
    ELSE "Accepted"

\* A log line written with the package logger instead of the request's.
LogLineUntagged(requestID, level, msg) ==
    [requestID |-> <<>>, level |-> level, msg |-> msg]

\* One log line: logger carries requestID; WithField("status", ...) adds status.
LogLine(requestID, level, msg) ==
    [requestID |-> requestID, level |-> level, msg |-> msg]

\* Spans of one request, in the order they were started.
\* A span started from a context that lost its parent.
NewSpanWithoutParent(name, parent) ==
    [name |-> name, parent |-> "", attrs |-> <<>>, events |-> {}, ends |-> 0]

NewSpan(name, parent) ==
    [name |-> name, parent |-> parent, attrs |-> <<>>, events |-> {}, ends |-> 0]

SpanIndex(spans, name) == CHOOSE i \in 1..Len(spans) : spans[i].name = name

StartSpan(spans, name, parent) ==
    IF tracer THEN Append(spans, NewSpan(name, parent)) ELSE spans

SetAttribute(spans, name, key, value) ==
    IF tracer
    THEN [spans EXCEPT ![SpanIndex(spans, name)].attrs = (key :> value) @@ @]
    ELSE spans

AddEvent(spans, name, event) ==
    IF tracer
    THEN [spans EXCEPT ![SpanIndex(spans, name)].events = @ \cup {event}]
    ELSE spans

EndSpan(spans, name) ==
    IF tracer
    THEN [spans EXCEPT ![SpanIndex(spans, name)].ends = @ + 1]
    ELSE spans

\* A counter that counts each call twice.
IncTwice(counter) == counter + 2

\* Counter.Inc()
Inc(counter) == counter + 1

\* An observation that adds to the sum but not to the count.
ObserveWithoutCount(histogram, v) ==
    [count |-> histogram.count, sum |-> histogram.sum + v]

\* An observation that is recorded twice.
ObserveTwice(histogram, v) ==
    [count |-> histogram.count + 2, sum |-> histogram.sum + v + v]

\* Histogram.Observe(v)
Observe(histogram, v) ==
    [count |-> histogram.count + 1, sum |-> histogram.sum + v]

\* The locals and outputs of one run of sortHandler.  hist is the sequence
\* of the operations the run has performed; a local that is no longer live
\* is reset to its zero value.
NewRequest ==
    [pc |-> "idle", method |-> "GET", arrival |-> 0, requestID |-> <<>>,
     numbers |-> <<>>, sortedNumbers |-> <<>>, duration |-> 0,
     responses |-> <<>>, logs |-> <<>>, spans |-> <<>>, hist |-> <<>>]

StatusOf(verdict) ==
    IF verdict = "MethodNotAllowed" THEN StatusMethodNotAllowed
    ELSE StatusBadRequest

WarnOf(verdict) ==
    IF verdict = "MethodNotAllowed" THEN "Method not allowed"
    ELSE "Request is even"

ErrorOf(verdict) ==
    IF verdict = "MethodNotAllowed" THEN "method not allowed"
    ELSE "request id is even"

ReceivedMsg == IF variant = "tracing" THEN "Received sort request" ELSE "received request"
UnsortedLevel == IF variant = "tracing" THEN "info" ELSE "debug"
SortedLevel == IF variant = "tracing" THEN "info" ELSE "warning"

\* net/http hands a request for /sort to sortHandler in a goroutine of its own.
Receive(r, method) ==
    /\ server.pc = "serving"
    /\ req[r].pc = "idle"
    /\ req' = [req EXCEPT ![r].pc = "enter", ![r].method = method]
    /\ UNCHANGED <<server, variant, tracer, sortRequests, errorCounter, sortDuration,
                   arraySize, tasks, input, threshold>>

\* A handler that starts without its "received" log line.
EnterWithoutLog(r, now) ==
    /\ req[r].pc = "enter"
    /\ LET requestID == FormatInt(now)
           spans1 == StartSpan(req[r].spans, "sort-handler", "")
           spans2 == SetAttribute(spans1, "sort-handler", "request.id", requestID)
       IN  req' = [req EXCEPT
                      ![r].pc = "count",
                      ![r].arrival = now,
                      ![r].requestID = requestID,
                      ![r].spans = spans2,
                      ![r].hist = Append(@, "received")]
    /\ UNCHANGED <<server, variant, tracer, sortRequests, errorCounter, sortDuration,
                   arraySize, tasks, input, threshold>>

\* Start of sortHandler: root span, requestID from the clock, first log line.
Enter(r, now) ==
    /\ req[r].pc = "enter"
    /\ LET requestID == FormatInt(now)
           spans1 == StartSpan(req[r].spans, "sort-handler", "")
           spans2 == SetAttribute(spans1, "sort-handler", "request.id", requestID)
       IN  req' = [req EXCEPT
                      ![r].pc = "count",
                      ![r].arrival = now,
                      ![r].requestID = requestID,
                      ![r].spans = spans2,
                      ![r].logs = Append(@, LogLine(requestID, "info", ReceivedMsg)),
                      ![r].hist = Append(@, "received")]
    /\ UNCHANGED <<server, variant, tracer, sortRequests, errorCounter, sortDuration,
                   arraySize, tasks, input, threshold>>

\* sortRequests.Inc(), then the two checks.
Count(r) ==
    /\ req[r].pc = "count"
    /\ sortRequests' = Inc(sortRequests)
    /\ LET verdict == Validate(req[r].method, req[r].requestID)
       IN  req' = [req EXCEPT
                      ![r].pc = IF verdict = "Accepted" THEN "accepted" ELSE verdict,
                      ![r].hist = Append(@, "requestsInc")]
    /\ UNCHANGED <<server, variant, tracer, errorCounter, sortDuration, arraySize,
                   tasks, input, threshold>>

\* A rejection whose return is missing: the handler goes on to the sort.
RejectWithoutReturn(r) ==
    /\ req[r].pc \in {"MethodNotAllowed", "OddEvenGate"}
    /\ req' = [req EXCEPT
                  ![r].pc = "accepted",
                  ![r].responses = Append(@, [code |-> StatusOf(req[r].pc),
                                              body |-> Encode(req[r].requestID, "error", <<>>)]),
                  ![r].hist = Append(@, "rejected")]
    /\ UNCHANGED <<server, variant, tracer, sortRequests, errorCounter, sortDuration,
                   arraySize, tasks, input, threshold>>

\* A rejection: the warning, the span attributes, the status code and the body.
Reject(r) ==
    /\ req[r].pc \in {"MethodNotAllowed", "OddEvenGate"}
    /\ LET verdict == req[r].pc
           code == StatusOf(verdict)
           spans1 == SetAttribute(req[r].spans, "sort-handler", "http.status_code", code)
           spans2 == SetAttribute(spans1, "sort-handler", "error", ErrorOf(verdict))
       IN  req' = [req EXCEPT
                      ![r].pc = "countError",
                      ![r].logs = Append(@, LogLine(req[r].requestID, "warning", WarnOf(verdict))),
                      ![r].spans = spans2,
                      ![r].responses = Append(@, [code |-> code,
                                                  body |-> Encode(req[r].requestID, "error", <<>>)]),
                      ![r].hist = Append(@, "rejected")]
    /\ UNCHANGED <<server, variant, tracer, sortRequests, errorCounter, sortDuration,
                   arraySize, tasks, input, threshold>>

\* A rejection that returns without errorCounter.Inc().
CountErrorWithoutInc(r) ==
    /\ req[r].pc = "countError"
    /\ req' = [req EXCEPT
                  ![r].pc = "done",
                  ![r].spans = EndSpan(@, "sort-handler"),
                  ![r].hist = Append(@, "errorsInc")]
    /\ UNCHANGED <<server, variant, tracer, sortRequests, errorCounter, sortDuration,
                   arraySize, tasks, input, threshold>>

\* A rejection that returns without ending the root span.
CountErrorWithoutEnd(r) ==
    /\ req[r].pc = "countError"
    /\ errorCounter' = Inc(errorCounter)
    /\ req' = [req EXCEPT
                  ![r].pc = "done",
                  ![r].hist = Append(@, "errorsInc")]
    /\ UNCHANGED <<server, variant, tracer, sortRequests, sortDuration, arraySize,
                   tasks, input, threshold>>

\* errorCounter.Inc(); return (the deferred span.End() runs).
CountError(r) ==
    /\ req[r].pc = "countError"
    /\ errorCounter' = Inc(errorCounter)
    /\ req' = [req EXCEPT
                  ![r].pc = "done",
                  ![r].spans = EndSpan(@, "sort-handler"),
                  ![r].hist = Append(@, "errorsInc")]
    /\ UNCHANGED <<server, variant, tracer, sortRequests, sortDuration, arraySize,
                   tasks, input, threshold>>

\* arraySize.Set(float64(size))
SetArraySize(r) ==
    /\ req[r].pc = "accepted"
    /\ arraySize' = size
    /\ req' = [req EXCEPT
                  ![r].pc = "generate",
                  ![r].spans = SetAttribute(@, "sort-handler", "array.size", size),
                  ![r].hist = Append(@, "gaugeSet")]
    /\ UNCHANGED <<server, variant, tracer, sortRequests, errorCounter, sortDuration,
                   tasks, input, threshold>>

\* numbers := generateRandomNumbers(size), inside its span, and the log line.
Generate(r) ==
    /\ req[r].pc = "generate"
    /\ \E numbers \in generateRandomNumbers(size, intn) :
       LET spans1 == StartSpan(req[r].spans, "generate-random-numbers", "sort-handler")
           spans2 == EndSpan(spans1, "generate-random-numbers")
           spans3 == AddEvent(spans2, "sort-handler", "unsorted-array-ready")
       IN  req' = [req EXCEPT
                      ![r].pc = "sort",
                      ![r].numbers = numbers,
                      ![r].spans = spans3,
                      ![r].logs = Append(@, LogLine(req[r].requestID, UnsortedLevel, "Unsorted (first 10)")),
                      ![r].hist = Append(@, "generated")]
    /\ UNCHANGED <<server, variant, tracer, sortRequests, errorCounter, sortDuration,
                   arraySize, tasks, input, threshold>>

\* sortedNumbers := parallelMergeSort(numbers), timed, inside its span.
Sort(r, duration) ==
    /\ req[r].pc = "sort"
    /\ LET spans1 == StartSpan(req[r].spans, "parallel-merge-sort", "sort-handler")
           spans2 == SetAttribute(spans1, "parallel-merge-sort", "duration_seconds", duration)
           spans3 == EndSpan(spans2, "parallel-merge-sort")
       IN  req' = [req EXCEPT
                      ![r].pc = "observe",
                      ![r].numbers = <<>>,
                      ![r].sortedNumbers = parallelMergeSort(req[r].numbers, threshold),
                      ![r].duration = duration,
                      ![r].spans = spans3,
                      ![r].hist = Append(@, "sorted")]
    /\ UNCHANGED <<server, variant, tracer, sortRequests, errorCounter, sortDuration,
                   arraySize, tasks, input, threshold>>

\* sortDuration.Observe(duration.Seconds()), the two log lines and the event.
ObserveDuration(r) ==
    /\ req[r].pc = "observe"
    /\ sortDuration' = Observe(sortDuration, req[r].duration)
    /\ req' = [req EXCEPT
                  ![r].pc = "respond",
                  ![r].sortedNumbers = <<>>,
                  ![r].spans = AddEvent(@, "sort-handler", "sorted-array-ready"),
                  ![r].logs = @ \o <<LogLine(req[r].requestID, SortedLevel, "Sorted (first 10)"),
                                     LogLine(req[r].requestID, "info", "Finished sorting")>>,
                  ![r].hist = Append(@, "observed")]
    /\ UNCHANGED <<server, variant, tracer, sortRequests, errorCounter, arraySize,
                   tasks, input, threshold>>

\* The success response; return (the deferred span.End() runs).
Respond(r) ==
    /\ req[r].pc = "respond"
    /\ LET spans1 == SetAttribute(req[r].spans, "sort-handler", "http.status_code", StatusOK)
           spans2 == EndSpan(spans1, "sort-handler")
       IN  req' = [req EXCEPT
                      ![r].pc = "done",
                      ![r].logs = Append(@, LogLine(req[r].requestID, "info", "Request completed")),
                      ![r].spans = spans2,
                      ![r].responses = Append(@, [code |-> StatusOK,
                                                  body |-> Encode(req[r].requestID, "success",
                                                                  DurationString(req[r].duration))]),
                      ![r].hist = Append(@, "completed")]
    /\ UNCHANGED <<server, variant, tracer, sortRequests, errorCounter, sortDuration,
                   arraySize, tasks, input, threshold>>

\* The lines main() and initTracer() log, given whether the collector was
\* reached and whether ListenAndServe could bind: a failed initTracer is
\* logged as an error and as a warning, and main goes on.
MainLogs(connected, bound) ==
    (IF variant = "tracing"
     THEN <<[level |-> "info", msg |-> "Application starting up"],
            [level |-> "info", msg |-> "Using OTLP endpoint"]>>
          \o (IF connected THEN <<>>
              ELSE <<[level |-> "error", msg |-> "Failed to create gRPC connection to collector"],
                     [level |-> "warning", msg |-> "Failed to initialize tracer. Continuing without tracing."]>>)
     ELSE <<>>)
    \o <<[level |-> "info", msg |-> "Starting on :8080"]>>
    \o (IF bound THEN <<>> ELSE <<[level |-> "fatal", msg |-> "listen"]>>)

\* A main() that gives up when the tracer cannot be initialised.
MainFatalWithoutTracer(connected, bound) ==
    /\ server.pc = "main"
    /\ tracer' = (variant = "tracing" /\ connected)
    /\ server' = [pc |-> IF bound /\ (connected \/ variant # "tracing")
                         THEN "serving" ELSE "fatal",
                  logs |-> MainLogs(connected, bound)]
    /\ UNCHANGED <<variant, req, sortRequests, errorCounter, sortDuration,
                   arraySize, tasks, input, threshold>>

\* main(): initTracer sets tracer only when the collector is reached; the
\* handlers are registered and ListenAndServe serves, or log.Fatal ends the
\* process when it cannot bind.
Main(connected, bound) ==
    /\ server.pc = "main"
    /\ tracer' = (variant = "tracing" /\ connected)
    /\ server' = [pc |-> IF bound THEN "serving" ELSE "fatal",
                  logs |-> MainLogs(connected, bound)]
    /\ UNCHANGED <<variant, req, sortRequests, errorCounter, sortDuration,
                   arraySize, tasks, input, threshold>>

\* The process at the start of main(): tracer is nil, no request yet.
Init ==
    /\ server = NotStarted
    /\ variant \in {"tracing", "plain"}
    /\ tracer = FALSE
    /\ req = [r \in Requests |-> NewRequest]
    /\ sortRequests = 0
    /\ errorCounter = 0
    /\ sortDuration = [count |-> 0, sum |-> 0]
    /\ arraySize = 0
    /\ tasks = <<>>
    /\ input = <<>>
    /\ threshold = thresholdConst

Next ==
    \/ \E connected, bound \in BOOLEAN : Main(connected, bound)
    \/ \E r \in Requests :
            \/ \E method \in Methods : Receive(r, method)
            \/ \E now \in Timestamps : Enter(r, now)
            \/ Count(r)
            \/ Reject(r)
            \/ CountError(r)
            \/ SetArraySize(r)
            \/ Generate(r)
            \/ \E duration \in 0..MaxDur : Sort(r, duration)
            \/ ObserveDuration(r)
            \/ Respond(r)

Spec == Init /\ [][Next]_vars

-----------------------------------------------------------------------------
(* Properties of the sort, checked under SortSpec.                         *)

NonDecreasing(s) == \A i \in 1..(Len(s) - 1) : s[i] <= s[i + 1]

Occurrences(s, v) == Cardinality({i \in 1..Len(s) : s[i] = v})

Permutation(s, t) ==
    /\ Len(s) = Len(t)
    /\ \A v \in {s[i] : i \in 1..Len(s)} \cup {t[i] : i \in 1..Len(t)} :
           Occurrences(s, v) = Occurrences(t, v)

Forked(p) == p \in DOMAIN tasks /\ LeftOf(p) \in DOMAIN tasks

\* C1: whatever the input, the threshold and the schedule of the goroutines,
\* the slice parallelMergeSort returns is non-decreasing and is a permutation
\* of its input.
C1_SortedPermutation ==
    tasks[Root].pc = "returned" =>
        /\ NonDecreasing(tasks[Root].result)
        /\ Permutation(tasks[Root].result, input)

\* C1 witness: a call that forked has returned an unsorted input with a
\* duplicate value.
C1_Witness ==
    /\ Forked(Root)
    /\ tasks[Root].pc = "returned"
    /\ ~NonDecreasing(input)
    /\ \E i, j \in 1..Len(input) : i # j /\ input[i] = input[j]
    /\ req = NoRequests

\* C2: the forked sort returns what the sequential mergeSort returns for the
\* same input, under every schedule; and the result of the goroutine that
\* sorted the left half is the left operand of the merge, that of the right
\* half the right operand, whichever finished first.
C2_ParallelEqualsSequential ==
    /\ tasks[Root].pc = "returned" => tasks[Root].result = mergeSort(input)
    /\ \A p \in DOMAIN tasks :
           /\ tasks[p].leftSet =>
                  tasks[p].left = parallelMergeSort(SliceTo(tasks[p].items, Len(tasks[p].items) \div 2), threshold)
           /\ tasks[p].rightSet =>
                  tasks[p].right = parallelMergeSort(SliceFrom(tasks[p].items, Len(tasks[p].items) \div 2), threshold)

\* C2 witness: the right goroutine published its result before the left one,
\* the two halves sorted to different slices, and the call has merged them.
C2_Witness ==
    /\ Forked(Root)
    /\ tasks[Root].pc = "returned"
    /\ tasks[Root].first = "right"
    /\ tasks[Root].left # tasks[Root].right
    /\ input # mergeSort(input)

\* C10: an invocation that forked leaves wg.Wait() and merges only when both
\* of its goroutines have assigned their result and run wg.Done().
C10_JoinBeforeMerge ==
    [][\A p \in DOMAIN tasks :
          (tasks[p].pc = "wait" /\ tasks'[p].pc = "returned") =>
              /\ tasks[LeftOf(p)].pc = "done"
              /\ tasks[RightOf(p)].pc = "done"
              /\ tasks[p].leftSet
              /\ tasks[p].rightSet]_vars

\* C10 witness: a nested invocation has merged while its sibling's goroutine
\* is still running and its parent is still blocked in wg.Wait().
C10_Witness ==
    /\ Forked(LeftOf(Root))
    /\ tasks[LeftOf(Root)].pc \in {"returned", "assigned", "done"}
    /\ tasks[RightOf(Root)].pc \notin {"done"}
    /\ tasks[Root].pc = "wait"

-----------------------------------------------------------------------------
(* Properties of the handler, checked under Spec.                          *)

Entered(r) == req[r].pc \notin {"idle", "enter"}
Validated(r) == req[r].pc \notin {"idle", "enter", "count"}
Finished(r) == req[r].pc = "done"
Performed(r, op) == Occurrences(req[r].hist, op)
OddId(r) == req[r].arrival % 2 = 1
EvenId(r) == req[r].arrival % 2 = 0

RECURSIVE SumOver(_, _)
SumOver(S, f) ==
    IF S = {} THEN 0
    ELSE LET r == CHOOSE x \in S : TRUE
         IN  f[r] + SumOver(S \ {r}, f)

Total(op) == SumOver(Requests, [r \in Requests |-> Performed(r, op)])

IsPrefix(s, t) == Len(s) <= Len(t) /\ s = SubSeq(t, 1, Len(s))

Before(h, a, b) ==
    \A i \in 1..Len(h) : h[i] = b => \E j \in 1..(i - 1) : h[j] = a

HasSpan(r, name) == \E i \in 1..Len(req[r].spans) : req[r].spans[i].name = name

ErrorResponse(r, code) ==
    <<[code |-> code,
       body |-> [requestID |-> FormatInt(req[r].arrival), status |-> "error"]]>>

\* C3: a GET request whose id is odd is never rejected; its handler generates
\* once, sorts once and writes one response: 200, "success", the id and a
\* duration.  A response body has a duration exactly when it is a success.
C3_OddGetSucceeds ==
    /\ \A r \in Requests :
           (Validated(r) /\ req[r].method = "GET" /\ OddId(r)) =>
               /\ req[r].pc \notin {"MethodNotAllowed", "OddEvenGate", "countError"}
               /\ Finished(r) =>
                      /\ Performed(r, "generated") = 1
                      /\ Performed(r, "sorted") = 1
                      /\ Len(req[r].responses) = 1
                      /\ req[r].responses[1].code = StatusOK
                      /\ DOMAIN req[r].responses[1].body = {"requestID", "status", "duration"}
                      /\ req[r].responses[1].body.requestID = FormatInt(req[r].arrival)
                      /\ req[r].responses[1].body.status = "success"
                      /\ req[r].responses[1].body.duration = DurationString(req[r].duration)
                      /\ req[r].responses[1].body.duration # <<>>
    /\ \A r \in Requests : \A i \in 1..Len(req[r].responses) :
           ("duration" \in DOMAIN req[r].responses[i].body)
               <=> (req[r].responses[i].body.status = "success")

\* C3 witness: an odd GET request has been answered with a zero duration
\* next to a request that was answered with an error.
C3_Witness ==
    \E r, q \in Requests :
        /\ Finished(r) /\ req[r].method = "GET" /\ OddId(r)
        /\ req[r].duration = 0
        /\ Len(req[r].responses) = 1
        /\ Finished(q) /\ req[q].responses[1].body.status = "error"

\* C4 as stated: every request with an even id gets 400 "error" and no
\* parallel-merge-sort span.
C4_EvenAlways400 ==
    \A r \in Requests :
        (Finished(r) /\ EvenId(r)) =>
            /\ req[r].responses = ErrorResponse(r, StatusBadRequest)
            /\ ~HasSpan(r, "parallel-merge-sort")

\* C4 amended: every GET request with an even id gets 400 "error" and no
\* parallel-merge-sort span (a non-GET request with an even id gets 405).
C4_EvenGet400 ==
    \A r \in Requests :
        (Validated(r) /\ req[r].method = "GET" /\ EvenId(r)) =>
            /\ ~HasSpan(r, "parallel-merge-sort")
            /\ Performed(r, "sorted") = 0
            /\ Finished(r) => req[r].responses = ErrorResponse(r, StatusBadRequest)

\* C4 witness: with tracing on, an even GET request has returned with its
\* root span ended.
C4_Witness ==
    \E r \in Requests :
        /\ tracer
        /\ Finished(r) /\ req[r].method = "GET" /\ EvenId(r)
        /\ HasSpan(r, "sort-handler")
        /\ req[r].responses[1].code = StatusBadRequest

\* C5: a non-GET request gets 405 "error" whether its id is odd or even, and
\* generateRandomNumbers is never called for it.
C5_NonGet405 ==
    \A r \in Requests :
        (Validated(r) /\ req[r].method # "GET") =>
            /\ req[r].pc \in {"MethodNotAllowed", "countError", "done"}
            /\ Performed(r, "generated") = 0
            /\ req[r].numbers = <<>>
            /\ Finished(r) => req[r].responses = ErrorResponse(r, StatusMethodNotAllowed)

\* C5 witness: two non-GET requests, one with an odd and one with an even id,
\* have both been answered.
C5_Witness ==
    \E r, q \in Requests :
        /\ Finished(r) /\ req[r].method # "GET" /\ OddId(r)
        /\ Finished(q) /\ req[q].method # "GET" /\ EvenId(q)

\* C6: sort_requests_total has grown by one for every request whose handler
\* has passed the increment, on the 405, the 400 and the 200 path alike, and
\* by the number of requests once all are handled.
C6_RequestsCountedOnce ==
    /\ sortRequests = Cardinality({r \in Requests : Validated(r)})
    /\ \A r \in Requests :
           Performed(r, "requestsInc") = (IF Validated(r) THEN 1 ELSE 0)
    /\ (\A r \in Requests : Finished(r)) => sortRequests = NReq

\* C6 witness: all requests are handled, one of them with 200, one with 400
\* and the counter has their number.
C6_Witness ==
    /\ \A r \in Requests : Finished(r)
    /\ \E r \in Requests : req[r].responses[1].code = StatusOK
    /\ \E r \in Requests : req[r].responses[1].code = StatusBadRequest
    /\ sortRequests = NReq

\* C7: sort_duration_seconds holds one observation for every request whose
\* sort has returned and whose handler has passed Observe, none for a
\* rejected request; the observation follows the sort and precedes the
\* response.
C7_ObservedOncePerSort ==
    /\ sortDuration.count = Cardinality({r \in Requests : req[r].pc = "respond"
                                            \/ (Finished(r) /\ Performed(r, "sorted") = 1)})
    /\ \A r \in Requests :
           /\ Performed(r, "observed") <= 1
           /\ Performed(r, "rejected") > 0 => Performed(r, "observed") = 0
           /\ (Finished(r) /\ Performed(r, "sorted") = 1) => Performed(r, "observed") = 1
           /\ Before(req[r].hist, "sorted", "observed")
           /\ Before(req[r].hist, "observed", "completed")
           /\ (req[r].responses # <<>> /\ Performed(r, "rejected") = 0) =>
                  Performed(r, "observed") = 1

\* C7 witness: one request has been observed and not yet answered while a
\* rejected request is finished.
C7_Witness ==
    \E r, q \in Requests :
        /\ req[r].pc = "respond" /\ req[r].responses = <<>>
        /\ Finished(q) /\ Performed(q, "rejected") = 1
        /\ sortDuration.count = 1

\* C8: errors_total has grown by one for every rejected request that has
\* returned, 405 or 400, and never for an accepted one; a rejected request
\* is answered once and its handler does nothing more.
C8_RejectionsCounted ==
    /\ errorCounter = Cardinality({r \in Requests :
                                       Finished(r) /\ Performed(r, "rejected") = 1})
    /\ \A r \in Requests :
           /\ Performed(r, "rejected") <= 1
           /\ (Finished(r) /\ (req[r].method # "GET" \/ EvenId(r))) =>
                  /\ req[r].hist = <<"received", "requestsInc", "rejected", "errorsInc">>
                  /\ Len(req[r].responses) = 1
                  /\ req[r].responses[1].code \in {StatusBadRequest, StatusMethodNotAllowed}
           /\ (Validated(r) /\ req[r].method = "GET" /\ OddId(r)) =>
                  Performed(r, "errorsInc") = 0

\* C8 witness: a 405 and a 400 rejection have both returned.
C8_Witness ==
    /\ errorCounter = 2
    /\ \E r, q \in Requests :
           /\ Finished(r) /\ req[r].responses[1].code = StatusMethodNotAllowed
           /\ Finished(q) /\ req[q].responses[1].code = StatusBadRequest

AcceptedLifecycle ==
    <<"received", "requestsInc", "gaugeSet", "generated", "sorted", "observed",
      "completed">>

RejectedLifecycle == <<"received", "requestsInc", "rejected", "errorsInc">>

\* C9: the operations of a handler are a prefix of received, validated,
\* gauge set, generated, sorted, observed, completed when the request is an
\* odd GET, and of received, validated, rejected otherwise: a rejected
\* request never sets the gauge, generates or sorts.
C9_Lifecycle ==
    /\ \A r \in Requests :
           /\ IsPrefix(req[r].hist, AcceptedLifecycle)
                  \/ IsPrefix(req[r].hist, RejectedLifecycle)
           /\ Performed(r, "gaugeSet") > 0 => (req[r].method = "GET" /\ OddId(r))
           /\ Performed(r, "rejected") > 0 => (req[r].method # "GET" \/ EvenId(r))
           /\ Finished(r) => req[r].hist \in {AcceptedLifecycle, RejectedLifecycle}
    /\ arraySize = (IF Total("gaugeSet") > 0 THEN size ELSE 0)

\* C9 witness: one request has run the whole accepted lifecycle and another
\* the rejected one, and both handlers have returned.
C9_Witness ==
    \E r, q \in Requests :
        /\ Finished(r) /\ req[r].hist = AcceptedLifecycle
        /\ Finished(q) /\ req[q].hist = RejectedLifecycle
        /\ req[q].numbers = <<>>
        /\ arraySize = size

-----------------------------------------------------------------------------
(* Fan-out of the sort, checked under SortSpec.                            *)

Spawned == DOMAIN tasks \ {Root}
Started(p) == tasks[p].pc # "call"

\* C11: an invocation on at most threshold elements, the boundary included,
\* starts no goroutine and returns what mergeSort returns; an invocation
\* forks exactly when it has more than threshold elements.
C11_ForkIffAboveThreshold ==
    /\ Len(input) <= threshold => Spawned = {}
    /\ \A p \in DOMAIN tasks :
           Started(p) =>
               /\ Forked(p) <=> Len(tasks[p].items) > threshold
               /\ (~Forked(p) /\ tasks[p].pc # "wait") =>
                      tasks[p].result = mergeSort(tasks[p].items)

\* C11 witness: a call on exactly threshold (more than one) elements has
\* returned an input that was not sorted, with no goroutine started.
C11_Witness ==
    /\ Len(input) = threshold
    /\ threshold > 1
    /\ tasks[Root].pc = "returned"
    /\ tasks[Root].result # input
    /\ Spawned = {}
    /\ req = NoRequests

RECURSIVE Pow2(_)
Pow2(k) == IF k <= 0 THEN 1 ELSE 2 * Pow2(k - 1)

MaxOf(S) == IF S = {} THEN 0 ELSE CHOOSE x \in S : \A y \in S : y <= x

\* The number of levels of fan-out so far: the root's fork is level 1.
FanOutDepth == MaxOf({Len(p) + 1 : p \in {q \in DOMAIN tasks : Forked(q)}})

\* C12 as stated: on more than threshold elements the fan-out depth never
\* exceeds log2(N / T), that is 2^depth * T <= N.
C12_DepthAtMostLog2 ==
    Len(input) > threshold => Pow2(FanOutDepth) * threshold <= Len(input)

\* C12 amended: on more than threshold elements the fan-out depth never
\* exceeds log2(N / T) rounded up (2^(depth - 1) * T < N) and reaches it when
\* the call returns (2^depth * T >= N); fewer than 4 * N / T goroutines are
\* started.
C12_DepthIsCeilLog2 ==
    /\ Len(input) > threshold =>
           /\ Pow2(FanOutDepth - 1) * threshold < Len(input)
           /\ tasks[Root].pc = "returned" =>
                  /\ FanOutDepth >= 1
                  /\ Pow2(FanOutDepth) * threshold >= Len(input)
    /\ Len(input) <= threshold => FanOutDepth = 0
    /\ Cardinality(Spawned) * threshold < 4 * Len(input) + 1
    /\ Cardinality(Spawned) <= 2 * (Pow2(FanOutDepth) - 1)

\* C12 witness: a call on N elements has returned after two levels of
\* fan-out although N / T is not a power of two and log2(N / T) is below 2.
C12_Witness ==
    /\ tasks[Root].pc = "returned"
    /\ FanOutDepth = 2
    /\ Pow2(FanOutDepth) * threshold > Len(input)
    /\ Cardinality(Spawned) = 4

-----------------------------------------------------------------------------
(* ScenarioSpec: one call of parallelMergeSort on 250000 elements with the *)
(* threshold of the source, 100000.  All sizes that occur (250000, 125000, *)
(* 62500) and the threshold are multiples of 12500, so sizes are counted   *)
(* in units of 12500 elements: every comparison n <= threshold and every   *)
(* midpoint n / 2 comes out as in the source.                              *)

scenarioN == 250000 \div 12500
scenarioT == 100000 \div 12500
scenarioHalf == 125000 \div 12500
scenarioQuarter == 62500 \div 12500

scenarioInput == [i \in 1..scenarioN |-> scenarioN - i]

ScenarioInit ==
    /\ input = scenarioInput
    /\ threshold = scenarioT
    /\ tasks = [p \in {Root} |-> NewTask(input)]
    /\ server = NotStarted
    /\ variant = "plain"
    /\ tracer = FALSE
    /\ req = NoRequests
    /\ sortRequests = 0
    /\ errorCounter = 0
    /\ sortDuration = [count |-> 0, sum |-> 0]
    /\ arraySize = 0

\* No task of the scenario has fewer than 62500 elements (C13_TwoFanOutLevels
\* checks the sizes), so the n <= 1 return is never enabled here.
ScenarioNext ==
    \/ \E p \in DOMAIN tasks : PmsSequential(p)
    \/ \E p \in DOMAIN tasks : PmsFork(p)
    \/ \E p \in DOMAIN tasks : GoAssign(p)
    \/ \E p \in DOMAIN tasks : GoDone(p)
    \/ \E p \in DOMAIN tasks : PmsJoin(p)

ScenarioSpec == ScenarioInit /\ [][ScenarioNext]_vars

\* C13 as stated: with n = 250000 and T = 100000 exactly two goroutines are
\* started, and neither starts a further one.
C13_OneFanOutLevel ==
    /\ Spawned \subseteq {LeftOf(Root), RightOf(Root)}
    /\ FanOutDepth <= 1

\* C13 amended: with n = 250000 and T = 100000 the call forks into two tasks
\* of 125000 elements; 125000 > T, so each forks again into two tasks of
\* 62500 elements, and these four sort sequentially: two levels of fan-out,
\* six goroutines.
C13_TwoFanOutLevels ==
    /\ Spawned \subseteq {<<0>>, <<1>>, <<0, 0>>, <<0, 1>>, <<1, 0>>, <<1, 1>>}
    /\ \A p \in DOMAIN tasks : Len(tasks[p].items) > 1
    /\ \A p \in Spawned :
           /\ Len(p) = 1 => Len(tasks[p].items) = scenarioHalf
           /\ Len(p) = 2 => Len(tasks[p].items) = scenarioQuarter
           /\ Started(p) => (Forked(p) <=> Len(p) = 1)
    /\ tasks[Root].pc = "returned" =>
           /\ Cardinality(Spawned) = 6
           /\ FanOutDepth = 2
           /\ tasks[Root].result = mergeSort(input)

\* C13 witness: the call has returned the sorted slice after both tasks of
\* 125000 elements forked.
C13_Witness ==
    /\ input = scenarioInput
    /\ tasks[Root].pc = "returned"
    /\ Forked(LeftOf(Root))
    /\ Forked(RightOf(Root))
    /\ NonDecreasing(tasks[Root].result)
    /\ Len(tasks[Root].result) = scenarioN

-----------------------------------------------------------------------------
(* Instrumentation of the handler, checked under Spec.                     *)

Transitions == {"received", "rejected", "generated", "sorted", "completed"}

TransitionsOf(r) ==
    Cardinality({i \in 1..Len(req[r].hist) : req[r].hist[i] \in Transitions})

Messages(r) == [i \in 1..Len(req[r].logs) |-> req[r].logs[i].msg]

RejectedMessages(r) ==
    <<ReceivedMsg,
      IF req[r].method # "GET" THEN "Method not allowed" ELSE "Request is even">>

AcceptedMessages ==
    <<ReceivedMsg, "Unsorted (first 10)", "Sorted (first 10)",
      "Finished sorting", "Request completed">>

\* C14 as stated: a handler that has returned has written exactly one log
\* line for each of its transitions (received, rejected, generation done,
\* sort done, completed).
C14_OneLinePerTransition ==
    \A r \in Requests : Finished(r) => Len(req[r].logs) = TransitionsOf(r)

\* C14 amended: received, rejected, generation done and completed write one
\* log line each, sort done writes two ("Sorted (first 10)" and "Finished
\* sorting"); the lines of a handler are, in order, a prefix of those of its
\* lifecycle.
C14_LinesPerTransition ==
    \A r \in Requests :
        /\ Performed(r, "rejected") > 0 =>
               /\ IsPrefix(Messages(r), RejectedMessages(r))
               /\ Len(req[r].logs) = 2
        /\ Performed(r, "rejected") = 0 =>
               /\ IsPrefix(Messages(r), AcceptedMessages)
               /\ Len(req[r].logs) = Performed(r, "received")
                                       + Performed(r, "generated")
                                       + 2 * Performed(r, "observed")
                                       + Performed(r, "completed")
        /\ Finished(r) =>
               Messages(r) \in {RejectedMessages(r), AcceptedMessages}

\* C14 witness: an accepted request has returned with five log lines for
\* its four transitions, and a rejected one with two lines.
C14_Witness ==
    \E r, q \in Requests :
        /\ Finished(r) /\ Len(req[r].logs) = 5 /\ TransitionsOf(r) = 4
        /\ Finished(q) /\ Len(req[q].logs) = 2 /\ TransitionsOf(q) = 2

SpanNames(r) == [i \in 1..Len(req[r].spans) |-> req[r].spans[i].name]
SpanOf(r, name) == req[r].spans[SpanIndex(req[r].spans, name)]
AttributeKeys(span) == DOMAIN span.attrs
AcceptedAndFinished(r) == Finished(r) /\ Performed(r, "completed") = 1

\* C15 as stated: with tracing on, each of the three spans of an accepted
\* request carries a request-id attribute and a duration attribute.
C15_EverySpanTagged ==
    \A r \in Requests :
        (tracer /\ AcceptedAndFinished(r)) =>
            \A i \in 1..Len(req[r].spans) :
                /\ "request.id" \in AttributeKeys(req[r].spans[i])
                /\ "duration_seconds" \in AttributeKeys(req[r].spans[i])

\* C15 amended: with tracing on, an accepted request has the root span
\* sort-handler and its two direct children generate-random-numbers and
\* parallel-merge-sort; the request id is an attribute of the root span
\* only, the duration an attribute of parallel-merge-sort only, and
\* generate-random-numbers has no attribute.
C15_SpanTree ==
    \A r \in Requests :
        (tracer /\ AcceptedAndFinished(r)) =>
            /\ SpanNames(r) = <<"sort-handler", "generate-random-numbers",
                                "parallel-merge-sort">>
            /\ SpanOf(r, "sort-handler").parent = ""
            /\ SpanOf(r, "generate-random-numbers").parent = "sort-handler"
            /\ SpanOf(r, "parallel-merge-sort").parent = "sort-handler"
            /\ AttributeKeys(SpanOf(r, "sort-handler"))
                   = {"request.id", "array.size", "http.status_code"}
            /\ SpanOf(r, "sort-handler").attrs["request.id"] = req[r].requestID
            /\ AttributeKeys(SpanOf(r, "generate-random-numbers")) = {}
            /\ AttributeKeys(SpanOf(r, "parallel-merge-sort")) = {"duration_seconds"}
            /\ SpanOf(r, "parallel-merge-sort").attrs["duration_seconds"] = req[r].duration

\* C15 witness: with tracing on, an accepted request has returned with its
\* three spans.
C15_Witness ==
    \E r \in Requests :
        /\ tracer
        /\ AcceptedAndFinished(r)
        /\ Len(req[r].spans) = 3
        /\ req[r].responses[1].code = StatusOK

LogsTagged(r) ==
    \A i \in 1..Len(req[r].logs) : req[r].logs[i].requestID = req[r].requestID

\* C16 as stated: every log line and every span of a request carries the
\* request's id, and no two requests carry the same id.
C16_AllSignalsTagged ==
    /\ \A r \in Requests :
           /\ LogsTagged(r)
           /\ \A i \in 1..Len(req[r].spans) :
                  /\ "request.id" \in AttributeKeys(req[r].spans[i])
                  /\ req[r].spans[i].attrs["request.id"] = req[r].requestID
    /\ \A r, q \in Requests :
           (r # q /\ Entered(r) /\ Entered(q)) => req[r].requestID # req[q].requestID

\* C16 amended: every log line of a request, the request.id attribute of
\* its root span and the requestID of its response carry the id formatted
\* from the request's arrival time; the child spans carry no id, and two
\* requests carry the same id exactly when they arrived in the same
\* nanosecond.
C16_LogsRootSpanResponseTagged ==
    /\ \A r \in Requests :
           Entered(r) =>
               /\ req[r].requestID = FormatInt(req[r].arrival)
               /\ req[r].logs # <<>>
               /\ LogsTagged(r)
               /\ \A i \in 1..Len(req[r].responses) :
                      req[r].responses[i].body.requestID = req[r].requestID
               /\ tracer =>
                      SpanOf(r, "sort-handler").attrs["request.id"] = req[r].requestID
               /\ \A i \in 1..Len(req[r].spans) :
                      req[r].spans[i].name # "sort-handler" =>
                          "request.id" \notin AttributeKeys(req[r].spans[i])
    /\ \A r, q \in Requests :
           (Entered(r) /\ Entered(q)) =>
               (req[r].requestID = req[q].requestID <=> req[r].arrival = req[q].arrival)

\* C16 witness: with tracing on, two requests that arrived in the same
\* nanosecond have both been answered, with the same requestID.
C16_Witness ==
    \E r, q \in Requests :
        /\ r # q
        /\ tracer
        /\ AcceptedAndFinished(r) /\ AcceptedAndFinished(q)
        /\ req[r].responses[1].body.requestID = req[q].responses[1].body.requestID
        /\ Len(req[r].logs) = 5

-----------------------------------------------------------------------------
\* Startup without a collector.

InLogs(logs, level, msg) ==
    \E i \in 1..Len(logs) : logs[i].level = level /\ logs[i].msg = msg

TracerFailureLogged ==
    InLogs(server.logs, "warning",
           "Failed to initialize tracer. Continuing without tracing.")

\* What a finished handler has written, from the method, the arrival time
\* and the measured duration alone.
ExpectedResponses(r) ==
    IF req[r].method # "GET" THEN ErrorResponse(r, StatusMethodNotAllowed)
    ELSE IF EvenId(r) THEN ErrorResponse(r, StatusBadRequest)
    ELSE <<[code |-> StatusOK,
            body |-> [requestID |-> FormatInt(req[r].arrival),
                      status |-> "success",
                      duration |-> DurationString(req[r].duration)]]>>

ExpectedLifecycle(r) ==
    IF req[r].method = "GET" /\ OddId(r) THEN AcceptedLifecycle
    ELSE RejectedLifecycle

ObservedSeconds ==
    SumOver(Requests, [r \in Requests |->
                           IF Performed(r, "observed") = 1 THEN req[r].duration ELSE 0])

\* C17: in the tracing build a failed initTracer is logged as a warning and
\* does not end the process: only a failed ListenAndServe does.  While the
\* tracer is nil no request has a span; with or without the tracer a finished
\* request has the response and the operations that its method, arrival time
\* and duration determine, and the four metrics are the tallies of those
\* operations.
C17_TracerFailureNonFatal ==
    /\ (variant = "tracing" /\ server.pc # "main") =>
           /\ TracerFailureLogged <=> ~tracer
           /\ server.pc = "fatal" => InLogs(server.logs, "fatal", "listen")
           /\ server.pc = "serving" => ~InLogs(server.logs, "fatal", "listen")
    /\ ~tracer => \A r \in Requests : req[r].spans = <<>>
    /\ server.pc # "serving" => \A r \in Requests : req[r] = NewRequest
    /\ \A r \in Requests :
           Finished(r) =>
               /\ req[r].responses = ExpectedResponses(r)
               /\ req[r].hist = ExpectedLifecycle(r)
    /\ sortRequests = Total("requestsInc")
    /\ errorCounter = Total("errorsInc")
    /\ sortDuration.count = Total("observed")
    /\ sortDuration.sum = ObservedSeconds
    /\ arraySize = (IF Total("gaugeSet") > 0 THEN size ELSE 0)

\* C17 witness: the tracing build could not reach the collector, is serving,
\* and has answered one request with 200 and one with an error, neither with
\* a span.
C17_Witness ==
    /\ variant = "tracing" /\ ~tracer /\ server.pc = "serving"
    /\ TracerFailureLogged
    /\ \E r, q \in Requests :
           /\ Finished(r) /\ req[r].responses[1].code = StatusOK
           /\ Finished(q) /\ req[q].responses[1].code = StatusMethodNotAllowed
           /\ req[r].spans = <<>> /\ req[q].spans = <<>>
           /\ sortDuration.count = 1 /\ errorCounter = 1 /\ arraySize = size

-----------------------------------------------------------------------------
\* Admission.

Answered(r) == req[r].responses # <<>>

\* The status code that the method and the arrival time determine.
AdmissionCode(method, arrival) ==
    IF method # "GET" THEN StatusMethodNotAllowed
    ELSE IF arrival % 2 = 0 THEN StatusBadRequest
    ELSE StatusOK

\* C18 as stated: parity of the id is the only criterion, so two requests
\* with the same arrival timestamp get the same decision.
C18_SameArrivalSameDecision ==
    \A r, q \in Requests :
        (Answered(r) /\ Answered(q) /\ req[r].arrival = req[q].arrival) =>
            req[r].responses[1].code = req[q].responses[1].code

\* C18: requestID is formatted once from the arrival time and no later step
\* of the handler changes it or the arrival time; the decision is the one the
\* method and the parity of the arrival time determine, so two requests with
\* the same method and the same arrival timestamp get the same decision, and
\* among GET requests parity alone decides.
C18_AdmissionByMethodAndParity ==
    /\ [](\A r \in Requests :
              /\ Entered(r) =>
                     /\ req[r].requestID = FormatInt(req[r].arrival)
                     /\ ParseInt(req[r].requestID) = req[r].arrival
              /\ Answered(r) =>
                     req[r].responses[1].code = AdmissionCode(req[r].method, req[r].arrival)
              /\ \A q \in Requests :
                     (Answered(r) /\ Answered(q) /\ req[r].method = req[q].method
                        /\ req[r].arrival = req[q].arrival) =>
                         req[r].responses[1].code = req[q].responses[1].code)
    /\ [][\A r \in Requests :
              Entered(r) =>
                  /\ req'[r].requestID = req[r].requestID
                  /\ req'[r].arrival = req[r].arrival
                  /\ req'[r].method = req[r].method]_vars

\* C18 witness: two GET requests that arrived in the same odd nanosecond
\* have both been answered with 200 while the other was in flight.
C18_Witness ==
    \E r, q \in Requests :
        /\ r # q
        /\ req[r].method = "GET" /\ req[q].method = "GET"
        /\ req[r].arrival = req[q].arrival /\ OddId(r)
        /\ Finished(r) /\ Finished(q)
        /\ req[r].responses[1].code = StatusOK
        /\ req[q].responses[1].code = StatusOK

-----------------------------------------------------------------------------
\* Ownership of the data and of the result variables, checked under SortSpec.

\* The half-open index range [lo, hi) of input that the split at n / 2 gives
\* the invocation p.
RECURSIVE RangeOf(_)
RangeOf(p) ==
    IF p = Root THEN [lo |-> 0, hi |-> Len(input)]
    ELSE LET r == RangeOf(Parent(p))
             m == r.lo + (r.hi - r.lo) \div 2
         IN  IF p[Len(p)] = 0 THEN [lo |-> r.lo, hi |-> m]
             ELSE [lo |-> m, hi |-> r.hi]

Indices(p) == LET r == RangeOf(p) IN r.lo..(r.hi - 1)

IsAncestor(p, q) == Len(p) < Len(q) /\ p = SubSeq(q, 1, Len(p))

\* The goroutine of p has not yet assigned its result.
Running(p) == p # Root /\ tasks[p].pc \in {"call", "wait", "returned"}

\* The variable that the goroutine of p assigns.
AssignTarget(p) == <<Parent(p), IF IsLeft(p) THEN "left" ELSE "right">>

\* C19: every invocation holds exactly the elements of its index range of
\* the input; the ranges of the two goroutines of a split are [lo, m) and
\* [m, hi) with m the middle of the parent's [lo, hi), so they are disjoint
\* and cover it, and two invocations of which neither called the other share
\* no index.  No two running goroutines assign the same variable; left and
\* right hold a value exactly when their own goroutine has assigned it, and
\* wg.Wait() lets the parent go on to read them only when both goroutines
\* are done, so no assignment can run next to the read.
C19_DisjointRangesNoRace ==
    /\ \A p \in DOMAIN tasks :
           LET r == RangeOf(p)
           IN  /\ tasks[p].items = SubSeq(input, r.lo + 1, r.hi)
               /\ Len(tasks[p].items) = Cardinality(Indices(p))
    /\ \A p \in DOMAIN tasks :
           Forked(p) =>
               LET r == RangeOf(p)
                   l == RangeOf(LeftOf(p))
                   u == RangeOf(RightOf(p))
               IN  /\ Indices(LeftOf(p)) \cap Indices(RightOf(p)) = {}
                   /\ Indices(LeftOf(p)) \cup Indices(RightOf(p)) = Indices(p)
                   /\ l.lo = r.lo /\ l.hi = u.lo /\ u.hi = r.hi
                   /\ l.hi - l.lo = (r.hi - r.lo) \div 2
    /\ \A p, q \in DOMAIN tasks :
           (p # q /\ ~IsAncestor(p, q) /\ ~IsAncestor(q, p)) =>
               Indices(p) \cap Indices(q) = {}
    /\ \A p, q \in DOMAIN tasks :
           (p # q /\ Running(p) /\ Running(q)) => AssignTarget(p) # AssignTarget(q)
    /\ \A p \in DOMAIN tasks :
           Forked(p) =>
               /\ tasks[p].leftSet <=> tasks[LeftOf(p)].pc \in {"assigned", "done"}
               /\ tasks[p].rightSet <=> tasks[RightOf(p)].pc \in {"assigned", "done"}
               /\ tasks[p].left = (IF tasks[p].leftSet THEN tasks[LeftOf(p)].result ELSE <<>>)
               /\ tasks[p].right = (IF tasks[p].rightSet THEN tasks[RightOf(p)].result ELSE <<>>)
               /\ (tasks[p].pc = "wait" /\ WaitReturns(tasks[p])) =>
                      /\ tasks[LeftOf(p)].pc = "done"
                      /\ tasks[RightOf(p)].pc = "done"

\* C19 witness: after two levels of splits the two goroutines of the left
\* half are both about to assign their results while the goroutine of the
\* right half has not started.
C19_Witness ==
    /\ Len(input) = 4
    /\ Forked(LeftOf(Root))
    /\ tasks[LeftOf(LeftOf(Root))].pc = "returned"
    /\ tasks[RightOf(LeftOf(Root))].pc = "returned"
    /\ tasks[RightOf(Root)].pc = "call"
    /\ tasks[Root].pc = "wait"

-----------------------------------------------------------------------------
\* Stability, checked under SortSpec.

\* The loop of merge, recording for every element appended to result the
\* side and the 0-based index it was taken from.
RECURSIVE mergeOrigins(_, _, _, _, _)
mergeOrigins(left, right, i, j, origins) ==
    IF i < Len(left) /\ j < Len(right)
    THEN IF TakeLeft(left[i + 1], right[j + 1])
         THEN mergeOrigins(left, right, i + 1, j, Append(origins, <<"left", i>>))
         ELSE mergeOrigins(left, right, i, j + 1, Append(origins, <<"right", j>>))
    ELSE origins
         \o [k \in 1..(Len(left) - i) |-> <<"left", i + k - 1>>]
         \o [k \in 1..(Len(right) - j) |-> <<"right", j + k - 1>>]

\* merge on two slices of positions of input, ordered by the elements there.
mergePositions(L, R) ==
    LET left == [k \in 1..Len(L) |-> input[L[k] + 1]]
        right == [k \in 1..Len(R) |-> input[R[k] + 1]]
        origins == mergeOrigins(left, right, 0, 0, <<>>)
    IN  [k \in 1..Len(origins) |->
            IF origins[k][1] = "left" THEN L[origins[k][2] + 1]
            ELSE R[origins[k][2] + 1]]

\* mergeSort on a slice of positions.
RECURSIVE mergeSortPositions(_)
mergeSortPositions(P) ==
    IF Len(P) <= 1 THEN P
    ELSE LET middle == Len(P) \div 2
         IN  mergePositions(mergeSortPositions(SliceTo(P, middle)),
                            mergeSortPositions(SliceFrom(P, middle)))

\* parallelMergeSort on a slice of positions, whatever the schedule.
RECURSIVE parallelMergeSortPositions(_, _)
parallelMergeSortPositions(P, T) ==
    IF Len(P) <= 1 THEN P
    ELSE IF Len(P) <= T THEN mergeSortPositions(P)
    ELSE LET middle == Len(P) \div 2
         IN  mergePositions(parallelMergeSortPositions(SliceTo(P, middle), T),
                            parallelMergeSortPositions(SliceFrom(P, middle), T))

PositionsOf(p) == LET r == RangeOf(p) IN [k \in 1..(r.hi - r.lo) |-> r.lo + k - 1]

ValueAt(left, right, origin) ==
    IF origin[1] = "left" THEN left[origin[2] + 1] ELSE right[origin[2] + 1]

\* origins takes every element of left and of right once, gives the slice
\* that merge returns, and among equal elements puts left before right and
\* keeps the order within a side.
StableMerge(left, right) ==
    LET origins == mergeOrigins(left, right, 0, 0, <<>>)
    IN  /\ Len(origins) = Len(left) + Len(right)
        /\ \A i \in 0..(Len(left) - 1) : \E k \in 1..Len(origins) : origins[k] = <<"left", i>>
        /\ \A j \in 0..(Len(right) - 1) : \E k \in 1..Len(origins) : origins[k] = <<"right", j>>
        /\ [k \in 1..Len(origins) |-> ValueAt(left, right, origins[k])] = merge(left, right)
        /\ \A a, b \in 1..Len(origins) :
               (a < b /\ ValueAt(left, right, origins[a]) = ValueAt(left, right, origins[b])) =>
                   /\ ~(origins[a][1] = "right" /\ origins[b][1] = "left")
                   /\ origins[a][1] = origins[b][1] => origins[a][2] < origins[b][2]

\* Equal elements stand in the order of their positions in input.
StableOrder(P) ==
    \A a, b \in 1..Len(P) :
        (a < b /\ input[P[a] + 1] = input[P[b] + 1]) => P[a] < P[b]

\* C20: when an invocation returns from merge, the two halves it merged
\* were sorted, merge took each of their elements once, and of two equal
\* elements the one from left comes first and two of the same side keep
\* their order; the slice an invocation returns holds the elements of its
\* range of input with equal elements in the order of their positions.
C20_StableMerge ==
    /\ \A p \in DOMAIN tasks :
           (tasks[p].pc = "returned" /\ Forked(p)) =>
               /\ NonDecreasing(tasks[p].left) /\ NonDecreasing(tasks[p].right)
               /\ StableMerge(tasks[p].left, tasks[p].right)
    /\ \A p \in DOMAIN tasks :
           tasks[p].pc = "returned" =>
               LET P == parallelMergeSortPositions(PositionsOf(p), threshold)
               IN  /\ tasks[p].result = [k \in 1..Len(P) |-> input[P[k] + 1]]
                   /\ StableOrder(P)
                   /\ Permutation(P, PositionsOf(p))

\* C20 witness: an invocation has merged two halves that share a value, the
\* left one holding that value twice, and its input was not sorted.
C20_Witness ==
    /\ Forked(Root)
    /\ tasks[Root].pc = "returned"
    /\ Len(tasks[Root].left) >= 2
    /\ tasks[Root].left[1] = tasks[Root].left[2]
    /\ tasks[Root].right[1] = tasks[Root].left[1]
    /\ input # tasks[Root].result

-----------------------------------------------------------------------------
(* RequestSpec: the server handling one request, with the call of          *)
(* parallelMergeSort inside the handler run as its goroutines.             *)

\* A handler that does not wait for parallelMergeSort to return.
SortEndWithoutWait(r, duration) ==
    /\ req[r].pc = "sorting"
    /\ LET spans1 == SetAttribute(req[r].spans, "parallel-merge-sort", "duration_seconds", duration)
           spans2 == EndSpan(spans1, "parallel-merge-sort")
       IN  req' = [req EXCEPT
                      ![r].pc = "observe",
                      ![r].numbers = <<>>,
                      ![r].sortedNumbers = tasks[Root].result,
                      ![r].duration = duration,
                      ![r].spans = spans2,
                      ![r].hist = Append(@, "sorted")]
    /\ UNCHANGED <<server, variant, tracer, sortRequests, errorCounter, sortDuration,
                   arraySize, tasks, input, threshold>>

\* net/http hands the one request of this run to sortHandler.
ReceiveAlone(r, method) ==
    /\ \A q \in Requests : req[q].pc = "idle"
    /\ Receive(r, method)

\* The sort span is started, startTime is taken and parallelMergeSort(numbers)
\* is called.
SortBegin(r) ==
    /\ req[r].pc = "sort"
    /\ req' = [req EXCEPT
                  ![r].pc = "sorting",
                  ![r].spans = StartSpan(@, "parallel-merge-sort", "sort-handler")]
    /\ input' = req[r].numbers
    /\ tasks' = [p \in {Root} |-> NewTask(req[r].numbers)]
    /\ UNCHANGED <<server, variant, tracer, sortRequests, errorCounter, sortDuration,
                   arraySize, threshold>>

\* parallelMergeSort has returned: duration is taken, the sort span gets its
\* attribute and is ended.
SortEnd(r, duration) ==
    /\ req[r].pc = "sorting"
    /\ tasks[Root].pc = "returned"
    /\ LET spans1 == SetAttribute(req[r].spans, "parallel-merge-sort", "duration_seconds", duration)
           spans2 == EndSpan(spans1, "parallel-merge-sort")
       IN  req' = [req EXCEPT
                      ![r].pc = "observe",
                      ![r].numbers = <<>>,
                      ![r].sortedNumbers = tasks[Root].result,
                      ![r].duration = duration,
                      ![r].spans = spans2,
                      ![r].hist = Append(@, "sorted")]
    /\ UNCHANGED <<server, variant, tracer, sortRequests, errorCounter, sortDuration,
                   arraySize, tasks, input, threshold>>

\* The steps of the goroutine that runs sortHandler for r.
HandlerStep(r) ==
    \/ \E now \in Timestamps : Enter(r, now)
    \/ Count(r)
    \/ Reject(r)
    \/ CountError(r)
    \/ SetArraySize(r)
    \/ Generate(r)
    \/ SortBegin(r)
    \/ \E duration \in 0..MaxDur : SortEnd(r, duration)
    \/ ObserveDuration(r)
    \/ Respond(r)

RequestNext ==
    \/ \E connected, bound \in BOOLEAN : Main(connected, bound)
    \/ \E r \in Requests : \E method \in Methods : ReceiveAlone(r, method)
    \/ \E r \in Requests : \E now \in Timestamps : Enter(r, now)
    \/ \E r \in Requests : Count(r)
    \/ \E r \in Requests : Reject(r)
    \/ \E r \in Requests : CountError(r)
    \/ \E r \in Requests : SetArraySize(r)
    \/ \E r \in Requests : Generate(r)
    \/ \E r \in Requests : SortBegin(r)
    \/ \E p \in DOMAIN tasks : PmsReturnItems(p)
    \/ \E p \in DOMAIN tasks : PmsSequential(p)
    \/ \E p \in DOMAIN tasks : PmsFork(p)
    \/ \E p \in DOMAIN tasks : GoAssign(p)
    \/ \E p \in DOMAIN tasks : GoDone(p)
    \/ \E p \in DOMAIN tasks : PmsJoin(p)
    \/ \E r \in Requests : \E duration \in 0..MaxDur : SortEnd(r, duration)
    \/ \E r \in Requests : ObserveDuration(r)
    \/ \E r \in Requests : Respond(r)

RequestSpec == Init /\ [][RequestNext]_vars

\* The Go scheduler lets every runnable goroutine run: the handler's and
\* those of the sort.
FairRequestSpec ==
    /\ Init
    /\ [][RequestNext]_vars
    /\ \A r \in Requests : WF_vars(HandlerStep(r))
    /\ WF_vars(SortNext)

-----------------------------------------------------------------------------
\* Properties of one request with its goroutines, checked under RequestSpec.

\* Everything the instrumentation calls write: the four metrics, the spans
\* and the log lines.
Sink ==
    <<sortRequests, errorCounter, sortDuration, arraySize, server.logs,
      [r \in Requests |-> req[r].spans], [r \in Requests |-> req[r].logs]>>

\* A goroutine started by parallelMergeSort has not yet run wg.Done().
SubtaskRunning == \E p \in DOMAIN tasks : p # Root /\ tasks[p].pc # "done"

\* A call of parallelMergeSort has not yet returned to the handler.
SortRunning == \E r \in Requests : req[r].pc = "sorting"

\* C21: while a goroutine of parallelMergeSort is running the handler is
\* inside the call, and no step taken then, by the handler or by a goroutine,
\* changes a metric, a span or a log: the handler writes them before the
\* call and after its return only.
C21_NoInstrumentationWhileForked ==
    /\ [](SubtaskRunning => SortRunning)
    /\ [][(SubtaskRunning \/ SubtaskRunning') => Sink' = Sink]_vars
    /\ [][(SortRunning /\ SortRunning') => Sink' = Sink]_vars

\* C21 witness: the plain variant has forked, one goroutine has returned
\* from its sort and the other has not started, and the handler, which has
\* written its first two log lines, is waiting in the call.
C21_Witness ==
    /\ Forked(Root)
    /\ tasks[LeftOf(Root)].pc = "returned"
    /\ tasks[RightOf(Root)].pc = "call"
    /\ \E r \in Requests : req[r].pc = "sorting" /\ Len(req[r].logs) = 2

-----------------------------------------------------------------------------
\* The dataset is only read, checked under SortSpec.

\* C22: no step of a call of parallelMergeSort changes the slice it was
\* given or the sub-slice any of its invocations holds, so in every state,
\* the last included, the dataset is what it was when the call began; what an
\* invocation returns is held apart from its items.
C22_InputNeverMutated ==
    /\ [](tasks[Root].items = input)
    /\ [][/\ input' = input
          /\ \A p \in DOMAIN tasks :
                 /\ p \in DOMAIN tasks'
                 /\ tasks'[p].items = tasks[p].items]_vars

\* C22 witness: the call has forked and returned a slice that differs from
\* its unsorted input, one half having been sorted by mergeSort into a slice
\* that differs from that half.
C22_Witness ==
    /\ Forked(Root)
    /\ tasks[Root].pc = "returned"
    /\ tasks[Root].result # input
    /\ ~Forked(RightOf(Root))
    /\ tasks[RightOf(Root)].result # tasks[RightOf(Root)].items
    /\ tasks[RightOf(Root)].items = SliceFrom(input, Len(input) \div 2)

-----------------------------------------------------------------------------
\* Termination, checked under FairRequestSpec.

\* The invocations a request of the server can have.
HandlerPaths == {Root, LeftOf(Root), RightOf(Root)}

DoneChildren(p) == {c \in {LeftOf(p), RightOf(p)} : tasks[c].pc = "done"}

\* C23: the counter of a barrier is two less the goroutines that have run
\* wg.Done(), each once; an invocation blocked in wg.Wait() eventually
\* leaves it, a call of parallelMergeSort eventually returns, and a request
\* that sortHandler was started for eventually finishes, completed or
\* rejected, with exactly one response, and stays finished.
C23_Terminates ==
    /\ [](\A p \in DOMAIN tasks :
              /\ Forked(p) => tasks[p].wg = wgAdd - Cardinality(DoneChildren(p))
              /\ tasks[p].wg >= 0)
    /\ [](DOMAIN tasks \subseteq HandlerPaths)
    /\ \A p \in HandlerPaths :
           (p \in DOMAIN tasks /\ tasks[p].pc = "wait")
               ~> (p \in DOMAIN tasks /\ tasks[p].pc # "wait")
    /\ \A r \in Requests : (req[r].pc = "sorting") ~> (req[r].pc = "observe")
    /\ \A r \in Requests : (req[r].pc = "enter") ~> Finished(r)
    /\ [](\A r \in Requests :
              /\ Len(req[r].responses) <= 1
              /\ Finished(r) =>
                     /\ Len(req[r].responses) = 1
                     /\ req[r].hist \in {AcceptedLifecycle, RejectedLifecycle})
    /\ [][\A r \in Requests : Finished(r) => req'[r] = req[r]]_vars

\* C23 witness: a request whose sort forked has finished with 200 and one
\* response after both goroutines ran wg.Done().
C23_Witness ==
    /\ Forked(Root)
    /\ tasks[Root].pc = "returned" /\ tasks[Root].wg = 0
    /\ tasks[LeftOf(Root)].pc = "done" /\ tasks[RightOf(Root)].pc = "done"
    /\ \E r \in Requests :
           /\ Finished(r) /\ req[r].hist = AcceptedLifecycle
           /\ Len(req[r].responses) = 1

-----------------------------------------------------------------------------
\* Which variant forks, checked under RequestSpec.

\* C26: the dataset of the tracing variant is not longer than the threshold
\* and that of the plain variant is; a call of parallelMergeSort by the
\* tracing handler starts no goroutine and returns what mergeSort returns,
\* inside the parallel-merge-sort span when there is a tracer, and a call
\* that has started goroutines was made by the plain handler, whose every
\* call forks.
C26_OnlyPlainForks ==
    /\ sizeTracing <= thresholdConst /\ thresholdConst < sizePlain
    /\ threshold = thresholdConst
    /\ Root \in DOMAIN tasks =>
           /\ Len(input) = size
           /\ tasks[Root].items = input
           /\ variant = "tracing" =>
                  /\ DOMAIN tasks = {Root}
                  /\ tasks[Root].pc \in {"call", "returned"}
                  /\ tasks[Root].pc = "returned" => tasks[Root].result = mergeSort(input)
           /\ Forked(Root) => variant = "plain"
           /\ (variant = "plain" /\ tasks[Root].pc # "call") => Forked(Root)
    /\ \A r \in Requests :
           (req[r].pc = "sorting" /\ tracer) =>
               /\ HasSpan(r, "parallel-merge-sort")
               /\ SpanOf(r, "parallel-merge-sort").ends = 0

\* C26 witness: the tracing handler, with a tracer, is inside the
\* parallel-merge-sort span and its call has sorted an unsorted dataset
\* without a goroutine.
C26_Witness ==
    /\ variant = "tracing" /\ tracer
    /\ DOMAIN tasks = {Root}
    /\ tasks[Root].pc = "returned"
    /\ tasks[Root].result # input
    /\ \E r \in Requests : req[r].pc = "sorting" /\ HasSpan(r, "parallel-merge-sort")

-----------------------------------------------------------------------------
\* The counters under concurrent requests, checked under Spec.

Rejections == Cardinality({r \in Requests : Finished(r) /\ Performed(r, "rejected") = 1})

\* C24: whatever the interleaving of the handlers, errors_total plus the
\* observations of sort_duration_seconds never exceeds sort_requests_total,
\* no step lowers either counter or the number of observations or raises one
\* by more than one, and when every request has finished the sum equals
\* sort_requests_total and the number of requests, errors_total being the
\* number of rejected requests.
C24_CountersConsistent ==
    /\ [](errorCounter + sortDuration.count <= sortRequests)
    /\ [](sortRequests <= NReq)
    /\ [](errorCounter = Rejections)
    /\ []((\A r \in Requests : Finished(r)) =>
              /\ errorCounter + sortDuration.count = sortRequests
              /\ sortRequests = NReq)
    /\ [][/\ sortRequests' \in {sortRequests, sortRequests + 1}
          /\ errorCounter' \in {errorCounter, errorCounter + 1}
          /\ sortDuration'.count \in {sortDuration.count, sortDuration.count + 1}]_vars

\* C24 witness: every request has finished, one sorted and one, which
\* arrived later, rejected; the counters add up.
C24_Witness ==
    /\ \A r \in Requests : Finished(r)
    /\ errorCounter = 1 /\ sortDuration.count = 1 /\ sortRequests = NReq
    /\ \E r, q \in Requests :
           /\ req[r].hist = RejectedLifecycle
           /\ req[q].hist = AcceptedLifecycle
           /\ req[r].arrival > req[q].arrival

-----------------------------------------------------------------------------
\* The life of the spans, checked under RequestSpec.

Ended(r, name) == HasSpan(r, name) /\ SpanOf(r, name).ends = 1

\* C25: with a tracer no span is ended twice or started twice; the root
\* span exists from the start of the handler and is ended exactly when the
\* handler has returned, with 405, 400 or 200; the generate span is ended
\* when the sort span exists, the sort span is open exactly while the call
\* of parallelMergeSort runs, and both are ended when the root span is; a
\* rejected request has the root span only.
C25_SpansEndedOnce ==
    \A r \in Requests :
        tracer =>
            /\ \A i \in 1..Len(req[r].spans) :
                   /\ req[r].spans[i].ends <= 1
                   /\ \A j \in 1..Len(req[r].spans) :
                          req[r].spans[i].name = req[r].spans[j].name => i = j
            /\ Entered(r) <=> HasSpan(r, "sort-handler")
            /\ Finished(r) <=> Ended(r, "sort-handler")
            /\ Finished(r) =>
                   /\ req[r].responses[1].code \in
                          {StatusMethodNotAllowed, StatusBadRequest, StatusOK}
                   /\ \A i \in 1..Len(req[r].spans) : req[r].spans[i].ends = 1
                   /\ req[r].responses[1].code # StatusOK => Len(req[r].spans) = 1
                   /\ req[r].responses[1].code = StatusOK =>
                          SpanNames(r) = <<"sort-handler", "generate-random-numbers",
                                           "parallel-merge-sort">>
            /\ HasSpan(r, "parallel-merge-sort") => Ended(r, "generate-random-numbers")
            /\ HasSpan(r, "generate-random-numbers") => Ended(r, "generate-random-numbers")
            /\ (HasSpan(r, "parallel-merge-sort") /\ ~Ended(r, "parallel-merge-sort"))
                   <=> req[r].pc = "sorting"
            /\ Ended(r, "sort-handler") =>
                   \A i \in 1..Len(req[r].spans) : req[r].spans[i].ends = 1

\* C25 witness: parallelMergeSort has sorted and the handler has not yet
\* taken the duration: the generate span is ended, the sort span and the
\* root span are open.
C25_Witness ==
    /\ tracer
    /\ \E r \in Requests :
           /\ req[r].pc = "sorting"
           /\ Ended(r, "generate-random-numbers")
           /\ SpanOf(r, "parallel-merge-sort").ends = 0
           /\ SpanOf(r, "sort-handler").ends = 0
           /\ tasks[Root].pc = "returned"

====
